---- MODULE Spec2Model ----
(***************************************************************************)
(* A model of the synthetic document-layout data generators:               *)
(*   frankensteinv2.py, frankenstein.py  (batch generators, Chromium)      *)
(*   epf_k_task1_chrome.py, playright_generation.py (single form, Chromium)*)
(*   epf_k_form_synth.py, epf_k_form_pillow.py (direct PDF drawing)        *)
(*                                                                         *)
(* Spec      : the generators that render through the browser engine, one  *)
(*             action per awaited step of the script.                      *)
(* SpecCoord : the coordinate conversions (origin flip, px <-> pt,         *)
(*             rounding) and draw_text_as_image's image placement,         *)
(*             applied to boxes and anchors drawn from bounded sets.       *)
(* SpecCompose : page composition, file naming and text shortening as     *)
(*             functions of their inputs, and one rendered two-column row. *)
(* SpecDraw  : the generators that draw the PDF directly, one action per   *)
(*             step of main.                                               *)
(*                                                                         *)
(* Numbers.  Raw engine geometry is a binary floating-point number; the    *)
(* model keeps it as an integer count of 1/RawDen CSS pixels, so that the  *)
(* products with 72/96 and the decimal roundings are exact rationals       *)
(* <<numerator, denominator>>.  Stored (rounded) values are integer        *)
(* hundredths.                                                             *)
(***************************************************************************)
EXTENDS Integers, Sequences, FiniteSets, TLC

VARIABLES
    prog,             \* which script runs
    pc,               \* position in the script
    fonts,            \* font files present in font_dir (subset of FontKeys)
    count,            \* --count
    i,                \* loop index of generate_dataset
    rng,              \* state of the global `random` generator
    dirs,             \* output directories created
    sessions,         \* browsers launched so far
    html,             \* elements of the html built for the current sample
    composed,         \* blocks made by the block generators for it, in call order
    dom,              \* elements of the page's current document
    contentOf,        \* sample whose content load completed on the page (-1: none)
    barrierOf,        \* sample for which document.fonts.ready was awaited (-1: none)
    labels_data,      \* result of the geometry query (SpecDraw: boxes the drawing calls return)
    processed_labels, \* annotations after px -> pt (SpecDraw: the label to be written)
    files,            \* files written: set of [kind, sample, name]
    labelFile,        \* sample -> annotations written to its label file
    composedOf,       \* sample -> blocks composed for that sample
    attempted,        \* sample indices whose iteration started
    geomLog,          \* geometry queries issued: [prog, sample, contentOf, barrierOf]
    failStage,        \* step at which the run raised ("" while none)
    cpc,              \* SpecCoord, SpecCompose: position
    cin,              \* SpecCoord, SpecCompose: the input
    cout              \* SpecCoord, SpecCompose: the result of the function applied

pipeVars == <<prog, pc, fonts, count, i, rng, dirs, sessions, html, composed, dom,
              contentOf, barrierOf, labels_data, processed_labels, files, labelFile,
              composedOf, attempted, geomLog, failStage>>
coordVars == <<cpc, cin, cout>>
vars == <<pipeVars, coordVars>>

----------------------------------------------------------------------------
(* Bounds of the model *)

MaxCount == 2      \* --count ranges over 0..MaxCount
MaxSeed == 40      \* initial states of the random generator: 0..MaxSeed
MaxGeom == 2       \* engine metric, in 1/RawDen px, chosen at each geometry query
RawDen == 64       \* raw geometry is a multiple of 1/RawDen px (a dyadic float)
MaxRaw == 64       \* raw x of SpecCoord: 0..MaxRaw (in 1/RawDen px)
MaxSide == 3       \* raw y, width, height of SpecCoord: 0..MaxSide
MaxCoord == 6      \* tl_to_rl inputs x, y, h: 0..MaxCoord (hundredths of a point)
RunStep == 21      \* SpecCompose starts a run in generator states 1, 1 + RunStep, ...
MaxStem == 3       \* sample indices 0..MaxStem, besides those around the powers of ten
MaxIdSeed == 2     \* generator states 0..MaxIdSeed in which a row of SpecCompose's id pairs starts

(* Program constants *)

PX_TO_PT_NUM == 72
PX_TO_PT_DEN == 96
RowLo == 6         \* random.randint(6, 9) in frankensteinv2
RowHi == 9
V1Lo == 5          \* random.randint(5, 7) in frankenstein
V1Hi == 7
IdLo == 100        \* random.randint(100, 999)
IdHi == 999
SCALE_FACTOR == 4  \* epf_k_form_pillow: scale_factor = 4
PT_TO_PX_MILLI == 1333   \* epf_k_form_pillow: the factor 1.333, in thousandths
PADDING == 10      \* epf_k_form_pillow: int(10 * scale_factor) pixels of padding
A4_HEIGHT == 84189 \* reportlab's A4 height, 841.89 pt, in hundredths of a point
A4_WIDTH == 59528  \* reportlab's A4 width, 595.28 pt, in hundredths of a point
TEXT_SI_LEN == 65  \* len(TEXT_SI), in code points
TEXT_TA_LEN == 46  \* len(TEXT_TA)
TEXT_EN_LEN == 66  \* len(TEXT_EN)

FontKeys == {"EN", "SI", "TA"}
BatchProgs == {"frankensteinv2", "frankenstein"}
Progs == BatchProgs \cup {"epf_k_task1_chrome", "playright_generation"}

----------------------------------------------------------------------------
(* The global random generator.  The scripts never seed it, so its initial  *)
(* state is arbitrary; every draw is a function of the state and advances   *)
(* it.                                                                       *)

RngNext(s) == (s * 6 + 1) % 251

RECURSIVE RngSkip(_, _)
RngSkip(s, n) == IF n = 0 THEN s ELSE RngSkip(RngNext(s), n - 1)

randint(s, a, b) == a + (s % (b - a + 1))

choice(s, seq) == seq[(s % Len(seq)) + 1]

----------------------------------------------------------------------------
(* Elements of the html, in document order.  box: the element is one the    *)
(* script's geometry query selects (class "layout-box" in the batch         *)
(* generators); wrappers (.page, flex rows and columns) are not.            *)

Elem(id, label, box) == [id |-> id, label |-> label, box |-> box]

Wrapper == Elem("", "", FALSE)

\* <div style="display: flex; gap: {gap}px; margin-bottom: 15px;"> holding cols
\* columns, and the <div style="flex: 1;"> that opens each column.
FlexRow(cols, gap) ==
    [id |-> "", label |-> "flex_row", box |-> FALSE, cols |-> cols, gap |-> gap]

FlexCol == Elem("", "flex_col", FALSE)

\* A block generator's result: the element it emits, the block it made (id and
\* data-label), and the generator state after the draws of its body.
Made(id, label, draws, s) ==
    [html |-> <<Elem(id, label, TRUE)>>,
     made |-> <<[id |-> id, label |-> label]>>,
     rng |-> RngSkip(s, draws)]

block_header(id, s) == Made(id, "header", 1, s)

block_paragraph(id, s) == Made(id, "text_block", 2, s)

block_input_field(id, s) == Made(id, "key_value", 1, s)

block_checkbox_group(id, s) == Made(id, "checkbox_group", 3, s)

block_signature(id, s) == Made(id, "signature_area", 0, s)

generators == <<"paragraph", "input_field", "checkbox_group", "input_field">>

\* (get_random_atomic_block_suffix_only: the id made of the random suffix alone.)
get_random_atomic_block_suffix_only(id_base, s) ==
    LET gen == choice(s, generators)
        s1 == RngNext(s)
        id == ToString(randint(s1, IdLo, IdHi))
        s2 == RngNext(s1)
    IN  CASE gen = "paragraph" -> block_paragraph(id, s2)
          [] gen = "input_field" -> block_input_field(id, s2)
          [] gen = "checkbox_group" -> block_checkbox_group(id, s2)

get_random_atomic_block(id_base, s) ==
    LET gen == choice(s, generators)
        s1 == RngNext(s)
        id == id_base \o "_" \o ToString(randint(s1, IdLo, IdHi))
        s2 == RngNext(s1)
    IN  CASE gen = "paragraph" -> block_paragraph(id, s2)
          [] gen = "input_field" -> block_input_field(id, s2)
          [] gen = "checkbox_group" -> block_checkbox_group(id, s2)

row_full_width(id_base, s) == get_random_atomic_block(id_base, s)

\* (row_two_columns_stacked: the two blocks without the flex row around them.)
row_two_columns_stacked(id_base, s) ==
    LET left == get_random_atomic_block(id_base \o "_L", s)
        right == get_random_atomic_block(id_base \o "_R", left.rng)
    IN  [html |-> left.html \o right.html,
         made |-> left.made \o right.made,
         rng |-> right.rng]

row_two_columns(id_base, s) ==
    LET left == get_random_atomic_block(id_base \o "_L", s)
        right == get_random_atomic_block(id_base \o "_R", left.rng)
    IN  [html |-> <<FlexRow(2, 20), FlexCol>> \o left.html \o <<FlexCol>> \o right.html,
         made |-> left.made \o right.made,
         rng |-> right.rng]

row_three_columns(id_base, s) ==
    LET c1 == get_random_atomic_block(id_base \o "_1", s)
        c2 == get_random_atomic_block(id_base \o "_2", c1.rng)
        c3 == get_random_atomic_block(id_base \o "_3", c2.rng)
    IN  [html |-> <<FlexRow(3, 10), FlexCol>> \o c1.html \o <<FlexCol>> \o c2.html
                    \o <<FlexCol>> \o c3.html,
         made |-> c1.made \o c2.made \o c3.made,
         rng |-> c3.rng]

layout_strategies == <<"full", "full", "two", "two", "three">>

Strategy(name, id_base, s) ==
    CASE name = "full" -> row_full_width(id_base, s)
      [] name = "two" -> row_two_columns(id_base, s)
      [] name = "three" -> row_three_columns(id_base, s)

\* for i in range(k, n): blocks.append(random.choice(layout_strategies)(i))
\* (RowsInclusive: the loop if range included its upper end.)
RECURSIVE RowsInclusive(_, _, _)
RowsInclusive(k, n, s) ==
    IF k > n THEN [blocks |-> <<>>, rng |-> s]
    ELSE LET row == Strategy(choice(s, layout_strategies), ToString(k), RngNext(s))
             rest == RowsInclusive(k + 1, n, row.rng)
         IN  [blocks |-> <<row>> \o rest.blocks, rng |-> rest.rng]

RECURSIVE Rows(_, _, _)
Rows(k, n, s) ==
    IF k >= n THEN [blocks |-> <<>>, rng |-> s]
    ELSE LET row == Strategy(choice(s, layout_strategies), ToString(k), RngNext(s))
             rest == Rows(k + 1, n, row.rng)
         IN  [blocks |-> <<row>> \o rest.blocks, rng |-> rest.rng]

\* The list `blocks` of frankensteinv2's build_random_page_html, in append order.
PageBlocksBad(header, rows, signature) == <<header, signature>> \o rows

PageBlocks(header, rows, signature) == <<header>> \o rows \o <<signature>>

RECURSIVE JoinHtml(_)
JoinHtml(blocks) ==
    IF blocks = <<>> THEN <<>> ELSE Head(blocks).html \o JoinHtml(Tail(blocks))

RECURSIVE JoinMade(_)
JoinMade(blocks) ==
    IF blocks = <<>> THEN <<>> ELSE Head(blocks).made \o JoinMade(Tail(blocks))

build_random_page_html(s) ==
    LET header == block_header("0", s)
        n == randint(header.rng, RowLo, RowHi)
        rows == Rows(1, n, RngNext(header.rng))
        signature == block_signature("99", rows.rng)
        blocks == PageBlocks(header, rows.blocks, signature)
    IN  [blocks |-> blocks,
         html |-> <<Wrapper>> \o JoinHtml(blocks),
         made |-> JoinMade(blocks),
         rng |-> signature.rng]

----------------------------------------------------------------------------
(* frankenstein.py: header, then 4-6 blocks, no signature. *)

v1_block_header(id, s) == Made(id, "header", 1, s)

v1_block_paragraph(id, s) == Made(id, "text_block", 1, s)

v1_block_key_value(id, s) == Made(id, "key_value_pair", 0, s)

v1_block_table(id, s) == Made(id, "table", 1, s)

block_generators == <<"paragraph", "key_value", "table", "key_value">>

RECURSIVE V1Blocks(_, _, _)
V1Blocks(k, n, s) ==
    IF k >= n THEN [blocks |-> <<>>, rng |-> s]
    ELSE LET gen_func == choice(s, block_generators)
             b == CASE gen_func = "paragraph" -> v1_block_paragraph(ToString(k), RngNext(s))
                    [] gen_func = "key_value" -> v1_block_key_value(ToString(k), RngNext(s))
                    [] gen_func = "table" -> v1_block_table(ToString(k), RngNext(s))
             rest == V1Blocks(k + 1, n, b.rng)
         IN  [blocks |-> <<b>> \o rest.blocks, rng |-> rest.rng]

v1_build_random_page_html(s) ==
    LET header == v1_block_header("0", s)
        n == randint(header.rng, V1Lo, V1Hi)
        rest == V1Blocks(1, n, RngNext(header.rng))
        blocks == <<header>> \o rest.blocks
    IN  [blocks |-> blocks,
         html |-> <<Wrapper>> \o JoinHtml(blocks),
         made |-> JoinMade(blocks),
         rng |-> rest.rng]

\* epf_k_task1_chrome.py: a fixed form; the query selects [data-gt="field1_name_input"].
build_html == <<Wrapper, Wrapper, Wrapper, Elem("field1_name_input", "input_area", TRUE)>>

\* playright_generation.py: a fixed form; the locator selects #input_name.
html_content == <<Wrapper, Wrapper, Elem("input_name", "name_input", TRUE)>>

----------------------------------------------------------------------------
(* The page (browser side). *)

\* page.set_content(html): the new document replaces the current one.
set_content_append(old, new) == old \o new

set_content(old, new) == new

\* document.querySelectorAll('.layout-box'), in document order.
\* (querySelectorAllReversed: the same elements, last to first.)
querySelectorAllReversed(d) ==
    LET sel == SelectSeq(d, LAMBDA e : e.box)
    IN  [k \in 1..Len(sel) |-> sel[Len(sel) + 1 - k]]

querySelectorAll(d) == SelectSeq(d, LAMBDA e : e.box)

\* Layout of the document by the engine, in units of 1/RawDen px, as the style
\* attributes of the markup prescribe it.  .page has padding: 20mm on an A4-wide
\* body; its children follow one another downwards.  The height of a line of text
\* depends on fonts and shaping, which the engine alone decides (metric g).
MM(n) == (n * 96 * RawDen * 10) \div 254

PagePadding == MM(20)

ContentWidth == MM(210) - 2 * PagePadding

\* A line of 10pt text (13.33 px) is at least 13 px high.
LineHeight(g) == 13 * RawDen + g

\* The lines of text of a block, and the heights fixed in its markup (borders,
\* paddings, height: 25px / 40px / 15px boxes), in px.
TextLines(label) ==
    CASE label = "header" -> 2
      [] label = "checkbox_group" -> 3
      [] OTHER -> 1

FixedPx(label) ==
    CASE label = "header" -> 12
      [] label = "key_value" -> 26
      [] label = "checkbox_group" -> 25
      [] label = "signature_area" -> 46
      [] OTHER -> 0

BlockHeight(label, g) == FixedPx(label) * RawDen + TextLines(label) * LineHeight(g)

MarginTop(label) == IF label = "signature_area" THEN 20 * RawDen ELSE 0

MarginBottom(label) ==
    IF label \in {"header", "signature_area"} THEN 20 * RawDen ELSE 10 * RawDen

MaxOf(S) == CHOOSE m \in S : \A n \in S : n <= m

\* The rectangles of the selected elements of d from position p on, in document
\* order, with the next child of .page starting at y.  A flex row shares the
\* content width equally among its columns (flex: 1), gap px apart, all starting
\* at the row's top; its height is that of its tallest column.
RECURSIVE Layout(_, _, _, _)
Layout(d, p, y, g) ==
    IF p > Len(d) THEN <<>>
    ELSE IF d[p].label = "flex_row"
    THEN LET n == d[p].cols
             gap == d[p].gap * RawDen
             w == (ContentWidth - (n - 1) * gap) \div n
             cells == [j \in 1..n |->
                          [x |-> PagePadding + (j - 1) * (w + gap), y |-> y, width |-> w,
                           height |-> BlockHeight(d[p + 2 * j].label, g)]]
             rowh == MaxOf({cells[j].height + MarginBottom(d[p + 2 * j].label) : j \in 1..n})
         IN  cells \o Layout(d, p + 2 * n + 1, y + rowh + 15 * RawDen, g)
    ELSE IF d[p].box
    THEN LET top == y + MarginTop(d[p].label)
             h == BlockHeight(d[p].label, g)
         IN  <<[x |-> PagePadding, y |-> top, width |-> ContentWidth, height |-> h]>>
             \o Layout(d, p + 1, top + h + MarginBottom(d[p].label), g)
    ELSE Layout(d, p + 1, y, g)

\* el.getBoundingClientRect() of the k-th element of the document, in document
\* order, that the query selects.
getBoundingClientRect(k, d, g) == Layout(d, 1, PagePadding, g)[k]

evaluate_boxes(d, g) ==
    LET boxes == querySelectorAll(d)
    IN  [k \in 1..Len(boxes) |->
            [id |-> boxes[k].id, class |-> boxes[k].label,
             bbox_px |-> getBoundingClientRect(k, d, g)]]

----------------------------------------------------------------------------
(* Units and rounding.  A rational is <<numerator, denominator>>, den > 0.  *)

\* Python's round(v, 2) of num/den >= 0, as an integer number of hundredths
\* (round half to even).
round2(num, den) ==
    LET q == (100 * num) \div den
        r == (100 * num) % den
    IN  IF 2 * r < den THEN q
        ELSE IF 2 * r > den THEN q + 1
        ELSE IF q % 2 = 0 THEN q ELSE q + 1

\* v * PX_TO_PT for a raw value of v/RawDen px.
PxToPtInverted(v) == <<v * PX_TO_PT_DEN, RawDen * PX_TO_PT_NUM>>

PxToPt(v) == <<v * PX_TO_PT_NUM, RawDen * PX_TO_PT_DEN>>

\* The conversion applied to the already rounded pixel value (hundredths).
RoundPtOfRounded(v) == round2(round2(v, RawDen) * PX_TO_PT_NUM, 100 * PX_TO_PT_DEN)

RoundPt(v) == round2(PxToPt(v)[1], PxToPt(v)[2])

\* One entry of processed_labels.
ProcessLabel(item) ==
    LET px == item.bbox_px
    IN  [id |-> item.id,
         class |-> item.class,
         bbox_px |-> <<round2(px.x, RawDen), round2(px.y, RawDen),
                       round2(px.width, RawDen), round2(px.height, RawDen)>>,
         bbox_pt |-> <<RoundPt(px.x), RoundPt(px.y), RoundPt(px.width), RoundPt(px.height)>>]

\* f"{i:04d}"  (Pad4Last4: a field of exactly four digits.)
Pad4Last4(n) ==
    LET m == n % 10000
    IN  IF m < 10 THEN "000" \o ToString(m)
        ELSE IF m < 100 THEN "00" \o ToString(m)
        ELSE IF m < 1000 THEN "0" \o ToString(m)
        ELSE ToString(m)

Pad4(n) ==
    IF n < 10 THEN "000" \o ToString(n)
    ELSE IF n < 100 THEN "00" \o ToString(n)
    ELSE IF n < 1000 THEN "0" \o ToString(n)
    ELSE ToString(n)

file_stem(p, n) ==
    IF p = "frankensteinv2" THEN "complex_sample_" \o Pad4(n) ELSE "sample_" \o Pad4(n)

----------------------------------------------------------------------------
(* The browser-backed generators as a state machine. *)

CoordIdle == cpc = "idle" /\ cin = [kind |-> "none"] /\ cout = [op |-> "none"]

\* The first statement of each script.
FirstPc(p) ==
    CASE p \in BatchProgs -> "mkdir"
      [] p = "epf_k_task1_chrome" -> "check_fonts"
      [] p = "playright_generation" -> "launch"

Init ==
    /\ prog \in Progs
    /\ pc = FirstPc(prog)
    /\ fonts \in (IF prog = "playright_generation" THEN {FontKeys} ELSE SUBSET FontKeys)
    /\ count \in (IF prog \in BatchProgs THEN 0..MaxCount ELSE {1})
    /\ rng \in (IF prog \in BatchProgs THEN 0..MaxSeed ELSE {0})
    /\ i = 0
    /\ dirs = FALSE
    /\ sessions = 0
    /\ html = <<>>
    /\ composed = <<>>
    /\ dom = <<>>
    /\ contentOf = -1
    /\ barrierOf = -1
    /\ labels_data = <<>>
    /\ processed_labels = <<>>
    /\ files = {}
    /\ labelFile = <<>>
    /\ composedOf = <<>>
    /\ attempted = {}
    /\ geomLog = {}
    /\ failStage = ""
    /\ CoordIdle

\* An exception leaves the script: nothing catches it.
Raise(stage) ==
    /\ pc' = "raised"
    /\ failStage' = stage

\* out_dir_p.mkdir(parents=True, exist_ok=True) and the three sub-directories.
Mkdirs ==
    /\ prog \in BatchProgs
    /\ pc = "mkdir"
    /\ dirs' = TRUE
    /\ pc' = "launch"
    /\ UNCHANGED <<prog, fonts, count, i, rng, sessions, html, composed, dom, contentOf,
                   barrierOf, labels_data, processed_labels, files, labelFile,
                   composedOf, attempted, geomLog, failStage, coordVars>>

\* epf_k_task1_chrome.main: for p in required: if not p.exists(): raise
CheckFonts ==
    /\ prog = "epf_k_task1_chrome"
    /\ pc = "check_fonts"
    /\ IF fonts = FontKeys
       THEN pc' = "build_html" /\ UNCHANGED failStage
       ELSE Raise("font")
    /\ UNCHANGED <<prog, fonts, count, i, rng, dirs, sessions, html, composed, dom,
                   contentOf, barrierOf, labels_data, processed_labels, files, labelFile,
                   composedOf, attempted, geomLog, coordVars>>

\* epf_k_task1_chrome.main: html = build_html(font_dir_p)
BuildHtml ==
    /\ prog = "epf_k_task1_chrome"
    /\ pc = "build_html"
    /\ html' = build_html
    /\ composed' = <<[id |-> "field1_name_input", label |-> "input_area"]>>
    /\ attempted' = {0}
    /\ pc' = "launch"
    /\ UNCHANGED <<prog, fonts, count, i, rng, dirs, sessions, dom, contentOf, barrierOf,
                   labels_data, processed_labels, files, labelFile, composedOf, geomLog,
                   failStage, coordVars>>

\* browser = p.chromium.launch()
Launch ==
    /\ pc = "launch"
    /\ sessions' = sessions + 1
    /\ pc' = "new_page"
    /\ UNCHANGED <<prog, fonts, count, i, rng, dirs, html, composed, dom, contentOf,
                   barrierOf, labels_data, processed_labels, files, labelFile,
                   composedOf, attempted, geomLog, failStage, coordVars>>

\* page = browser.new_page() (and set_viewport_size): an empty document.
NewPage ==
    /\ pc = "new_page"
    /\ dom' = <<>>
    /\ IF prog = "playright_generation"
       THEN /\ html' = html_content
            /\ composed' = <<[id |-> "input_name", label |-> "name_input"]>>
            /\ attempted' = {0}
            /\ pc' = "set_content"
       ELSE /\ UNCHANGED <<html, composed, attempted>>
            /\ pc' = IF prog \in BatchProgs THEN "loop" ELSE "set_content"
    /\ UNCHANGED <<prog, fonts, count, i, rng, dirs, sessions, contentOf, barrierOf,
                   labels_data, processed_labels, files, labelFile, composedOf, geomLog,
                   failStage, coordVars>>

\* for i in range(count): html = build_random_page_html(font_dir_p)
\* get_base_css is the composer's first statement: a missing font raises there.
Compose ==
    /\ prog \in BatchProgs
    /\ pc = "loop"
    /\ i < count
    /\ attempted' = attempted \cup {i}
    /\ IF fonts # FontKeys
       THEN /\ Raise("font")
            /\ UNCHANGED <<html, composed, rng>>
       ELSE LET page == IF prog = "frankensteinv2"
                        THEN build_random_page_html(rng)
                        ELSE v1_build_random_page_html(rng)
            IN  /\ html' = page.html
                /\ composed' = page.made
                /\ rng' = page.rng
                /\ pc' = "set_content"
                /\ UNCHANGED failStage
    /\ UNCHANGED <<prog, fonts, count, i, dirs, sessions, dom, contentOf, barrierOf,
                   labels_data, processed_labels, files, labelFile, composedOf, geomLog,
                   coordVars>>

\* The loop is exhausted: await browser.close()
LoopExit ==
    /\ prog \in BatchProgs
    /\ pc = "loop"
    /\ i >= count
    /\ pc' = "close"
    /\ UNCHANGED <<prog, fonts, count, i, rng, dirs, sessions, html, composed, dom,
                   contentOf, barrierOf, labels_data, processed_labels, files, labelFile,
                   composedOf, attempted, geomLog, failStage, coordVars>>

\* await page.set_content(html, wait_until="load")
SetContent ==
    /\ pc = "set_content"
    /\ dom' = set_content(dom, html)
    /\ contentOf' = i
    /\ barrierOf' = -1
    /\ pc' = IF prog = "playright_generation" THEN "networkidle" ELSE "fonts_ready"
    /\ UNCHANGED <<prog, fonts, count, i, rng, dirs, sessions, html, composed,
                   labels_data, processed_labels, files, labelFile, composedOf,
                   attempted, geomLog, failStage, coordVars>>

\* await page.evaluate("() => document.fonts.ready")
FontsReady ==
    /\ pc = "fonts_ready"
    /\ barrierOf' = contentOf
    /\ pc' = "extract"
    /\ UNCHANGED <<prog, fonts, count, i, rng, dirs, sessions, html, composed, dom,
                   contentOf, labels_data, processed_labels, files, labelFile,
                   composedOf, attempted, geomLog, failStage, coordVars>>

\* playright_generation: page.wait_for_load_state("networkidle").  It waits for
\* the network to fall silent; document.fonts.ready is not awaited.
NetworkIdle ==
    /\ prog = "playright_generation"
    /\ pc = "networkidle"
    /\ pc' = "extract"
    /\ UNCHANGED <<prog, fonts, count, i, rng, dirs, sessions, html, composed, dom,
                   contentOf, barrierOf, labels_data, processed_labels, files, labelFile,
                   composedOf, attempted, geomLog, failStage, coordVars>>

\* The geometry query: page.evaluate(querySelectorAll(...).map(getBoundingClientRect))
\* in the batch generators and epf_k_task1_chrome, locator.bounding_box() in
\* playright_generation.
Extract ==
    /\ pc = "extract"
    /\ \E g \in 0..MaxGeom : labels_data' = evaluate_boxes(dom, g)
    /\ geomLog' = geomLog \cup {[prog |-> prog, sample |-> i,
                                 contentOf |-> contentOf, barrierOf |-> barrierOf]}
    /\ pc' = IF prog = "playright_generation" THEN "pdf" ELSE "convert"
    /\ UNCHANGED <<prog, fonts, count, i, rng, dirs, sessions, html, composed, dom,
                   contentOf, barrierOf, processed_labels, files, labelFile, composedOf,
                   attempted, failStage, coordVars>>

\* for item in labels_data: processed_labels.append({...})
Convert ==
    /\ pc = "convert"
    /\ processed_labels' = [k \in DOMAIN labels_data |-> ProcessLabel(labels_data[k])]
    /\ pc' = "pdf"
    /\ UNCHANGED <<prog, fonts, count, i, rng, dirs, sessions, html, composed, dom,
                   contentOf, barrierOf, labels_data, files, labelFile, composedOf,
                   attempted, geomLog, failStage, coordVars>>

File(kind, n, name) == [kind |-> kind, sample |-> n, name |-> name]

PdfName ==
    CASE prog \in BatchProgs -> file_stem(prog, i) \o ".pdf"
      [] prog = "epf_k_task1_chrome" -> "epf_k_task1.pdf"
      [] prog = "playright_generation" -> "final_form.pdf"

JsonName ==
    CASE prog \in BatchProgs -> file_stem(prog, i) \o ".json"
      [] prog = "epf_k_task1_chrome" -> "epf_k_task1.labels.json"
      [] prog = "playright_generation" -> "labels.json"

\* await page.pdf(path=...)  (epf_k_task1_chrome: page.pdf() and write_bytes)
Pdf ==
    /\ pc = "pdf"
    /\ files' = files \cup {File("pdf", i, PdfName)}
    /\ pc' = IF prog \in BatchProgs THEN "screenshot" ELSE "write_json"
    /\ UNCHANGED <<prog, fonts, count, i, rng, dirs, sessions, html, composed, dom,
                   contentOf, barrierOf, labels_data, processed_labels, labelFile,
                   composedOf, attempted, geomLog, failStage, coordVars>>

\* await page.screenshot(path=..., full_page=True)
Screenshot ==
    /\ prog \in BatchProgs
    /\ pc = "screenshot"
    /\ files' = files \cup {File("png", i, file_stem(prog, i) \o ".png")}
    /\ pc' = "write_json"
    /\ UNCHANGED <<prog, fonts, count, i, rng, dirs, sessions, html, composed, dom,
                   contentOf, barrierOf, labels_data, processed_labels, labelFile,
                   composedOf, attempted, geomLog, failStage, coordVars>>

\* The annotations the script puts in its label file.
Annotations ==
    IF prog = "playright_generation"
    THEN [k \in DOMAIN labels_data |->
             [class |-> labels_data[k].class, bbox |-> labels_data[k].bbox_px]]
    ELSE processed_labels

\* json_path.write_text(json.dumps(label_file)); the loop then takes the next i.
WriteJson ==
    /\ pc = "write_json"
    /\ files' = files \cup {File("json", i, JsonName)}
    /\ labelFile' = (i :> Annotations) @@ labelFile
    /\ composedOf' = (i :> composed) @@ composedOf
    /\ IF prog \in BatchProgs
       THEN i' = i + 1 /\ pc' = "loop"
       ELSE i' = i /\ pc' = "close"
    /\ UNCHANGED <<prog, fonts, count, rng, dirs, sessions, html, composed, dom,
                   contentOf, barrierOf, labels_data, processed_labels, attempted,
                   geomLog, failStage, coordVars>>

\* await browser.close()
Close ==
    /\ pc = "close"
    /\ pc' = "done"
    /\ UNCHANGED <<prog, fonts, count, i, rng, dirs, sessions, html, composed, dom,
                   contentOf, barrierOf, labels_data, processed_labels, files, labelFile,
                   composedOf, attempted, geomLog, failStage, coordVars>>

\* The steps of one sample that call the engine or the file system; each can raise
\* (engine error, timeout, write error), and no statement of the scripts catches it.
FailPoints == {"set_content", "fonts_ready", "networkidle", "extract", "pdf",
               "screenshot", "write_json"}

Fail ==
    /\ pc \in FailPoints
    /\ Raise(pc)
    /\ UNCHANGED <<prog, fonts, count, i, rng, dirs, sessions, html, composed, dom,
                   contentOf, barrierOf, labels_data, processed_labels, files, labelFile,
                   composedOf, attempted, geomLog, coordVars>>

Next ==
    \/ Mkdirs
    \/ CheckFonts
    \/ BuildHtml
    \/ Launch
    \/ NewPage
    \/ Compose
    \/ LoopExit
    \/ SetContent
    \/ FontsReady
    \/ NetworkIdle
    \/ Extract
    \/ Convert
    \/ Pdf
    \/ Screenshot
    \/ WriteJson
    \/ Close
    \/ Fail

Spec == Init /\ [][Next]_vars

Ended == pc \in {"done", "raised"}

----------------------------------------------------------------------------
(* Properties of the browser-backed generators (checked under Spec). *)

Ids(seq) == {seq[k].id : k \in DOMAIN seq}

\* C1: in a batch, every label file written holds exactly as many annotations as
\* blocks were composed for its sample (header, the blocks of every row,
\* signature), and they are the composed blocks: none missing, none carried over
\* from the document of an earlier sample on the reused page.
C1_LabelsMatchComposedBlocks ==
    prog \in BatchProgs =>
        \A k \in DOMAIN labelFile :
            /\ Len(labelFile[k]) = Len(composedOf[k])
            /\ Ids(labelFile[k]) = Ids(composedOf[k])

\* C1 witness: the second sample of a frankensteinv2 batch, rendered on the reused
\* page, has its label file written, with a block count other than the first's.
C1_SecondSampleWritten ==
    /\ prog = "frankensteinv2"
    /\ 1 \in DOMAIN labelFile
    /\ Len(labelFile[1]) # Len(labelFile[0])
    /\ Len(labelFile[1]) = Len(composedOf[1])

\* C2: every geometry query is issued after the content load of the same sample
\* completed and after document.fonts.ready was awaited for it.
C2_QueryAfterFontsReady ==
    \A q \in geomLog : q.contentOf = q.sample /\ q.barrierOf = q.sample

\* C3: with a required font file missing, the run ends by raising the font error,
\* with no browser launched, no output directory and no file created.
C3_MissingFontFailsBeforeEngine ==
    (prog # "playright_generation" /\ fonts # FontKeys /\ Ended) =>
        /\ pc = "raised"
        /\ failStage = "font"
        /\ sessions = 0
        /\ ~dirs
        /\ files = {}

\* C4: a failure while rendering, extracting or writing one sample does not keep
\* the later samples from being attempted: when the run has ended, every sample
\* 0..count-1 of the batch was attempted.
C4_FailedSampleIsSkipped ==
    (prog \in BatchProgs /\ Ended /\ failStage \in FailPoints) =>
        attempted = 0..(count - 1)

Kinds(p) == IF p \in BatchProgs THEN {"pdf", "png", "json"} ELSE {"pdf", "json"}

Has(kind, n) == \E f \in files : f.kind = kind /\ f.sample = n

\* C5: when the run has ended, every sample has all of its files (pdf, image,
\* label file) or none of them.
C5_ArtifactsAllOrNone ==
    (prog \in BatchProgs /\ Ended) =>
        \A n \in 0..(count - 1) :
            \/ \A kind \in Kinds(prog) : Has(kind, n)
            \/ \A kind \in Kinds(prog) : ~Has(kind, n)

\* C6: every page composed by frankensteinv2's build_random_page_html starts with
\* the header block and ends with the signature block, and every block strictly
\* between them is a row block.
C6_HeaderFirstSignatureLast ==
    (prog = "frankensteinv2" /\ composed # <<>>) =>
        /\ Len(composed) >= 2
        /\ composed[1] = [id |-> "0", label |-> "header"]
        /\ composed[Len(composed)] = [id |-> "99", label |-> "signature_area"]
        /\ \A k \in 2..(Len(composed) - 1) :
               composed[k].label \in {"text_block", "key_value", "checkbox_group"}

\* C6 witness: a composed page of at least 10 blocks, a checkbox group among them,
\* about to be loaded.
C6_PageComposed ==
    /\ prog = "frankensteinv2"
    /\ pc = "set_content"
    /\ Len(composed) >= 10
    /\ \E k \in DOMAIN html : html[k].box /\ html[k].label = "checkbox_group"

\* C19: the k-th annotation of every label file written is the record of the
\* k-th block composed (header, rows top to bottom and columns left to right,
\* signature), and the px -> pt post-processing keeps the records of the query
\* one for one, in the same order.
C19_AnnotationsInDocumentOrder ==
    prog \in BatchProgs =>
        /\ \A n \in DOMAIN labelFile :
              /\ Len(labelFile[n]) = Len(composedOf[n])
              /\ \A k \in 1..Len(labelFile[n]) :
                    /\ labelFile[n][k].id = composedOf[n][k].id
                    /\ labelFile[n][k].class = composedOf[n][k].label
        /\ pc \in {"pdf", "screenshot", "write_json"} =>
              /\ Len(processed_labels) = Len(labels_data)
              /\ \A k \in 1..Len(labels_data) : processed_labels[k].id = labels_data[k].id

\* C19 witness: a frankensteinv2 label file of at least 12 annotations (some row
\* has several columns) was written, header first and signature last.
C19_MultiColumnPageWritten ==
    /\ prog = "frankensteinv2"
    /\ 0 \in DOMAIN labelFile
    /\ Len(labelFile[0]) >= 12
    /\ labelFile[0][1].class = "header"
    /\ labelFile[0][Len(labelFile[0])].class = "signature_area"
    /\ labelFile[0][2].id # labelFile[0][3].id

----------------------------------------------------------------------------
(* Coordinate conversions of the direct-drawing generators.  Points are     *)
(* integer hundredths of a point.                                           *)

\* epf_k_form_synth.tl_to_rl(page, x, y, h): (x, page.height - (y + h))
tl_to_rl_noh(H, x, y, h) == <<x, H - y>>

tl_to_rl_whole(H, x, y, h) == <<x, ((H - (y + h)) \div 100) * 100>>

tl_to_rl(H, x, y, h) == <<x, H - (y + h)>>

\* The call without h: the parameter's default, h = 0.
tl_to_rl_default(H, x, y) == tl_to_rl(H, x, y, 0)

\* A tl_to_rl that forgets the height of the image it places.
pillow_tl_to_rl_noh(H, x, y, h) == <<x, H - y>>

\* epf_k_form_pillow.tl_to_rl, the same function again.
pillow_tl_to_rl(H, x, y, h) == <<x, H - (y + h)>>

pillow_tl_to_rl_default(H, x, y) == pillow_tl_to_rl(H, x, y, 0)

\* epf_k_form_pillow: font_size_px = int(font_size_pt * 1.333 * scale_factor)
pillow_font_size_px(font_size_pt) ==
    (font_size_pt * PT_TO_PX_MILLI * SCALE_FACTOR) \div 1000

\* epf_k_form_pillow: pdf_w = img_w / (1.333 * scale_factor), a rational
pillow_px_to_pt(img) == <<img * 1000, PT_TO_PX_MILLI * SCALE_FACTOR>>

FontSizes == {9, 10, 11, 12}

PageHeights == {A4_HEIGHT} \cup (0..MaxCoord)

PxInputs ==
    {[kind |-> "px", x |-> x, y |-> y, width |-> w, height |-> h] :
        x \in 0..MaxRaw, y \in 0..MaxSide, w \in 0..MaxSide, h \in 0..MaxSide}

PtInputs ==
    {[kind |-> "pt", x |-> x, y |-> y, h |-> h, H |-> H] :
        x \in 0..MaxCoord, y \in 0..MaxCoord, h \in 0..MaxCoord, H \in PageHeights}

PipeIdle ==
    /\ prog = "none" /\ pc = "idle" /\ fonts = FontKeys /\ count = 0 /\ i = 0
    /\ rng = 0 /\ dirs = FALSE /\ sessions = 0 /\ html = <<>> /\ composed = <<>>
    /\ dom = <<>> /\ contentOf = -1 /\ barrierOf = -1 /\ labels_data = <<>>
    /\ processed_labels = <<>> /\ files = {} /\ labelFile = <<>> /\ composedOf = <<>>
    /\ attempted = {} /\ geomLog = {} /\ failStage = ""

InitCoord ==
    /\ PipeIdle
    /\ cpc = "in"
    /\ cin \in PxInputs \cup PtInputs
    /\ cout = [op |-> "none"]

\* A unit conversion performed: the value converted and the value obtained, as
\* rationals, before any rounding.
Conv(dir, site, from, to) == [dir |-> dir, site |-> site, from |-> from, to |-> to]

\* tl_to_rl(page, x, y, h) as draw_text_tl / draw_text_as_image call it.
ApplyTlToRl ==
    /\ cpc = "in"
    /\ cin.kind = "pt"
    /\ \E site \in {"synth", "pillow"} :
          LET r == IF site = "synth" THEN tl_to_rl(cin.H, cin.x, cin.y, cin.h)
                   ELSE pillow_tl_to_rl(cin.H, cin.x, cin.y, cin.h)
          IN  cout' = [op |-> "tl_to_rl", site |-> site, x |-> r[1], y |-> r[2]]
    /\ cpc' = "out"
    /\ UNCHANGED <<cin, pipeVars>>

\* tl_to_rl(page, x, y) with h left to its default.
ApplyTlToRlDefault ==
    /\ cpc = "in"
    /\ cin.kind = "pt"
    /\ \E site \in {"synth", "pillow"} :
          LET r == IF site = "synth" THEN tl_to_rl_default(cin.H, cin.x, cin.y)
                   ELSE pillow_tl_to_rl_default(cin.H, cin.x, cin.y)
          IN  cout' = [op |-> "tl_to_rl_default", site |-> site, x |-> r[1], y |-> r[2]]
    /\ cpc' = "out"
    /\ UNCHANGED <<cin, pipeVars>>

\* The conversion applied to its own result, same page height and box height.
ApplyAgain ==
    /\ cpc = "out"
    /\ cout.op = "tl_to_rl"
    /\ LET r == IF cout.site = "synth" THEN tl_to_rl(cin.H, cout.x, cout.y, cin.h)
                ELSE pillow_tl_to_rl(cin.H, cout.x, cout.y, cin.h)
       IN  cout' = [op |-> "round_trip", site |-> cout.site, x |-> r[1], y |-> r[2]]
    /\ cpc' = "back"
    /\ UNCHANGED <<cin, pipeVars>>

\* The px -> pt post-processing of one label (frankenstein, frankensteinv2,
\* epf_k_task1_chrome).
ApplyProcessLabel ==
    /\ cpc = "in"
    /\ cin.kind = "px"
    /\ LET px == [x |-> cin.x, y |-> cin.y, width |-> cin.width, height |-> cin.height]
           comps == <<px.x, px.y, px.width, px.height>>
       IN  cout' = [op |-> "label",
                    label |-> ProcessLabel([id |-> "0", class |-> "header", bbox_px |-> px]),
                    convs |-> {Conv("px_to_pt", "frankensteinv2",
                                    <<comps[k], RawDen>>, PxToPt(comps[k])) : k \in 1..4}]
    /\ cpc' = "out"
    /\ UNCHANGED <<cin, pipeVars>>

PillowDen == 200 * PT_TO_PX_MILLI * SCALE_FACTOR

\* A position in hundredths of a point, in units of 1/PillowDen pt.
PillowPt(v) == v * (PillowDen \div 100)

\* The extent the font engine measures for a text set in a font of the given
\* size, with a metric g it alone decides.
textbbox(size, g) == [w |-> (g + 1) * size, h |-> size]

\* epf_k_form_pillow.draw_text_as_image(c, page, x, y, text, font_path,
\* font_size_pt, align): loaded is whether ImageFont.truetype could load the font.
draw_text_as_image(x, y, font_size_pt, align, loaded, g) ==
    IF ~loaded THEN <<PillowPt(x), PillowPt(y), 0, 0>>
    ELSE LET m == textbbox(pillow_font_size_px(font_size_pt), g)
             img_w == m.w + PADDING * SCALE_FACTOR
             img_h == m.h + PADDING * SCALE_FACTOR
             pdf_w == pillow_px_to_pt(img_w)[1] * 200
             pdf_h == pillow_px_to_pt(img_h)[1] * 200
             x_final == CASE align = "center" -> PillowPt(x) - (pdf_w \div 2)
                          [] align = "right" -> PillowPt(x) - pdf_w
                          [] OTHER -> PillowPt(x)
         IN  <<x_final, PillowPt(y), pdf_w, pdf_h>>

\* The c.drawImage call draw_text_as_image makes (l.111-114): the image is placed
\* at tl_to_rl(page, x_final, y_final, pdf_h), in bottom-left coordinates, with
\* width pdf_w and height pdf_h.  Nothing is drawn when the font did not load.
drawImage(H, x, y, font_size_pt, align, loaded, g) ==
    IF ~loaded THEN [drawn |-> FALSE]
    ELSE LET box == draw_text_as_image(x, y, font_size_pt, align, loaded, g)
             r == pillow_tl_to_rl(PillowPt(H), box[1], box[2], box[4])
         IN  [drawn |-> TRUE, x |-> r[1], y |-> r[2],
              width |-> box[3], height |-> box[4]]

\* The alignments a caller may pass; draw_text_as_image treats every value
\* other than "center" and "right" as left alignment.
Alignments == {"left", "center", "right", "justify"}

\* draw_text_as_image called with an anchor (x, y) on a page of height H: what
\* it returns and the image it draws.
ApplyDrawTextAsImage ==
    /\ cpc = "in"
    /\ cin.kind = "pt"
    /\ cin.h = 0
    /\ \E align \in Alignments : \E font_size_pt \in FontSizes :
       \E g \in 0..MaxGeom : \E loaded \in BOOLEAN :
          cout' = [op |-> "draw_text_as_image", align |-> align, loaded |-> loaded,
                   box |-> draw_text_as_image(cin.x, cin.y, font_size_pt, align,
                                              loaded, g),
                   image |-> drawImage(cin.H, cin.x, cin.y, font_size_pt, align,
                                       loaded, g)]
    /\ cpc' = "out"
    /\ UNCHANGED <<cin, pipeVars>>

\* draw_text_as_image's unit conversions: the font size to (supersampled) pixels,
\* and the measured image size back to points.  A CSS pixel is scale_factor image
\* pixels.
ApplyPillowUnits ==
    /\ cpc = "in"
    /\ cin.kind = "px"
    /\ \E font_size_pt \in FontSizes :
          LET img_w == cin.width + PADDING * SCALE_FACTOR
              img_h == cin.height + PADDING * SCALE_FACTOR
          IN  cout' = [op |-> "pillow",
                       font_size_px |-> pillow_font_size_px(font_size_pt),
                       pdf_w |-> pillow_px_to_pt(img_w),
                       pdf_h |-> pillow_px_to_pt(img_h),
                       convs |-> {Conv("pt_to_px", "pillow", <<font_size_pt, 1>>,
                                       <<pillow_font_size_px(font_size_pt), SCALE_FACTOR>>),
                                  Conv("px_to_pt", "pillow", <<img_w, SCALE_FACTOR>>,
                                       pillow_px_to_pt(img_w)),
                                  Conv("px_to_pt", "pillow", <<img_h, SCALE_FACTOR>>,
                                       pillow_px_to_pt(img_h))}]
    /\ cpc' = "out"
    /\ UNCHANGED <<cin, pipeVars>>

NextCoord ==
    \/ ApplyTlToRl
    \/ ApplyTlToRlDefault
    \/ ApplyAgain
    \/ ApplyProcessLabel
    \/ ApplyPillowUnits
    \/ ApplyDrawTextAsImage

SpecCoord == InitCoord /\ [][NextCoord]_vars

----------------------------------------------------------------------------
(* Properties of the conversions (checked under SpecCoord). *)

Abs(n) == IF n < 0 THEN -n ELSE n

\* to = from * num / den, for rationals from and to
Scaled(from, to, num, den) == to[1] * from[2] * den = from[1] * num * to[2]

\* C7: every pixel-to-point conversion multiplies by exactly 72/96 = 0.75, each of
\* the components it converts alike, and every point-to-pixel conversion by
\* exactly 96/72.
C7_ExactUnitFactor ==
    cout.op \in {"label", "pillow"} =>
        \A c \in cout.convs :
            /\ c.dir = "px_to_pt" => Scaled(c.from, c.to, 72, 96)
            /\ c.dir = "pt_to_px" => Scaled(c.from, c.to, 96, 72)

\* C8: tl_to_rl returns x unchanged and y = H - (y + h), the bottom-left-origin
\* coordinate of the box's lower edge; without h it returns (x, H - y).
C8_TlToRlFlipsLowerEdge ==
    /\ cout.op = "tl_to_rl" =>
          cout.x = cin.x /\ cout.y + (cin.y + cin.h) = cin.H
    /\ cout.op = "tl_to_rl_default" =>
          cout.x = cin.x /\ cout.y + cin.y = cin.H

\* C8 witness: a box of positive height below the top of an A4 page was converted.
C8_BoxFlippedOnA4 ==
    /\ cout.op = "tl_to_rl"
    /\ cin.H = A4_HEIGHT
    /\ cin.h > 0
    /\ cin.y > 0
    /\ cout.y < cin.H - cin.y

\* C9: the origin conversion applied twice, with the same page height and box
\* height, gives back the box's x and y within 0.01 (one hundredth).
C9_OriginRoundTrip ==
    cout.op = "round_trip" =>
        Abs(cout.x - cin.x) <= 1 /\ Abs(cout.y - cin.y) <= 1

\* C9 witness: a box of positive height on an A4 page went there and back.
C9_RoundTripDone ==
    /\ cout.op = "round_trip"
    /\ cpc = "back"
    /\ cin.H = A4_HEIGHT
    /\ cin.h > 0
    /\ cin.y > 0
    /\ cout.y = cin.y

\* C10: each stored bbox_pt component divided by 0.75 is within 0.01 of the stored
\* bbox_px component (both are hundredths: |pt * 4/3 - px| <= 1).
C10_PtBackToPxWithinTolerance ==
    cout.op = "label" =>
        \A k \in 1..4 :
            Abs(4 * cout.label.bbox_pt[k] - 3 * cout.label.bbox_px[k]) <= 3

\* C10 witness: a label whose two roundings went opposite ways, so that the
\* difference is the full 0.01.
C10_ToleranceAttained ==
    /\ cout.op = "label"
    /\ cout.label.bbox_px[1] > 0
    /\ Abs(4 * cout.label.bbox_pt[1] - 3 * cout.label.bbox_px[1]) = 3

\* The raw components of the box given to ProcessLabel, in 1/RawDen px.
RawComps == <<cin.x, cin.y, cin.width, cin.height>>

\* C11: each bbox_pt component written is the raw, unrounded pixel value times
\* 0.75 rounded once to 2 decimals: it is a hundredth nearest to raw * 3/4
\* (|pt/100 - raw/RawDen * 3/4| <= 0.005).
C11_PtRoundedOnceFromRaw ==
    cout.op = "label" =>
        \A k \in 1..4 :
            2 * Abs(4 * RawDen * cout.label.bbox_pt[k] - 300 * RawComps[k]) <= 4 * RawDen

\* C11 witness: a label for which converting the already rounded bbox_px
\* component would have given another bbox_pt than the one written.
C11_RoundedPxWouldDiffer ==
    /\ cout.op = "label"
    /\ cin.x > 0
    /\ round2(cout.label.bbox_px[1] * 3, 400) # cout.label.bbox_pt[1]

----------------------------------------------------------------------------
(* Page composition, file naming and corpus text as functions of their      *)
(* inputs.  A text is the sequence of its code points, each one a "base"    *)
(* (letter, digit, space, punctuation), a "sign" (combining mark: virama,   *)
(* dependent vowel sign, anusvara) or a "joiner" (U+200D).                   *)

\* Code points of TEXT_SI that are combining signs, and those that are ZWJ.
SiSigns == {2, 5, 8, 10, 13, 17, 19, 21, 23, 26, 31, 34, 36, 43, 47, 49, 51, 57, 62, 64}

SiJoiners == {3, 14, 24, 52, 58}

\* Code points of TEXT_TA that are combining signs.
TaSigns == {4, 6, 11, 16, 19, 22, 25, 27, 31, 33, 38, 42, 44, 46}

TEXT_SI ==
    [k \in 1..TEXT_SI_LEN |->
        IF k \in SiJoiners THEN "joiner" ELSE IF k \in SiSigns THEN "sign" ELSE "base"]

TEXT_TA == [k \in 1..TEXT_TA_LEN |-> IF k \in TaSigns THEN "sign" ELSE "base"]

TEXT_EN == [k \in 1..TEXT_EN_LEN |-> "base"]

\* f"{TEXT_SI} {TEXT_EN} {TEXT_TA}. "
BaseText == TEXT_SI \o <<"base">> \o TEXT_EN \o <<"base">> \o TEXT_TA \o <<"base", "base">>

\* text * n
RECURSIVE Repeat(_, _)
Repeat(t, n) == IF n = 0 THEN <<>> ELSE t \o Repeat(t, n - 1)

\* text[:n]
Slice(t, n) == SubSeq(t, 1, IF n < Len(t) THEN n ELSE Len(t))

\* A slice text[:n] taken: the length asked for, the last code point kept and
\* the first one dropped ("none" where there is none).
Cut(t, n) ==
    [n |-> n,
     kept |-> IF n >= 1 /\ Len(t) >= 1 THEN t[IF n < Len(t) THEN n ELSE Len(t)] ELSE "none",
     dropped |-> IF n < Len(t) THEN t[n + 1] ELSE "none"]

\* frankensteinv2.get_random_text(length): the text cut, and the cut made.
get_random_text(length, s) ==
    LET whole == Repeat(BaseText, length)
        n == randint(s, 50, 200)
    IN  [text |-> Slice(whole, n), cuts |-> {Cut(whole, n)}, rng |-> RngNext(s)]

\* The texts a block generator shortens, by the place that shortens them.
ShortenedText(site, s) ==
    CASE site = "block_paragraph" ->
             get_random_text(randint(s, 1, 3), RngNext(s))
      [] site = "block_checkbox_group" ->
             LET t == get_random_text(1, s)
             IN  [text |-> Slice(t.text, 20), cuts |-> t.cuts \cup {Cut(t.text, 20)},
                  rng |-> t.rng]
      [] site = "v1_block_header" ->
             [text |-> Slice(TEXT_SI, 20), cuts |-> {Cut(TEXT_SI, 20)}, rng |-> s]

\* The sample indices tried: small ones and those around each power of ten.
StemIndices ==
    (0..MaxStem) \cup {9, 10, 99, 100, 999, 1000, 9998, 9999, 10000, 10001, 19999, 100000}

\* The generator states the two runs start in: every RunStep-th state.
RunSeeds == {s \in 0..250 : s % RunStep = 1}

RunInputs ==
    {[kind |-> "runs", script |-> p, rng1 |-> a, rng2 |-> b] :
        p \in BatchProgs, a \in RunSeeds, b \in RunSeeds}

StemInputs ==
    {[kind |-> "stems", script |-> p, i |-> a, j |-> b] :
        p \in BatchProgs, a \in StemIndices, b \in StemIndices}

TextInputs ==
    {[kind |-> "text", site |-> site, rng |-> s] :
        site \in {"block_paragraph", "block_checkbox_group", "v1_block_header"},
        s \in 0..250}

\* A page of one header and one two-column row, the generator state its
\* composition starts in and the engine's metric.
RowInputs ==
    {[kind |-> "row", rng |-> s, g |-> g] : s \in 0..MaxSeed, g \in 0..MaxGeom}

\* Two rows i < j of one page, the strategy chosen for each, and the generator
\* state each row starts in: the two states are independent, so that the rows
\* may draw the same suffixes.
IdInputs ==
    {[kind |-> "ids", i |-> a, j |-> b, si |-> sa, sj |-> sb, rngi |-> ra, rngj |-> rb] :
        a \in 1..(RowHi - 1), b \in 1..(RowHi - 1),
        sa \in {"full", "two", "three"}, sb \in {"full", "two", "three"},
        ra \in 0..MaxIdSeed, rb \in 0..MaxIdSeed}

InitCompose ==
    /\ PipeIdle
    /\ cpc = "in"
    /\ cin \in RunInputs \cup StemInputs \cup TextInputs \cup RowInputs
               \cup {c \in IdInputs : c.i < c.j}
    /\ cout = [op |-> "none"]

\* build_random_page_html of either batch generator, from generator state s.
Page(script, s) ==
    IF script = "frankensteinv2" THEN build_random_page_html(s)
    ELSE v1_build_random_page_html(s)

\* One run of the script composes its first page.
ComposePage ==
    /\ cpc = "in"
    /\ cin.kind = "runs"
    /\ cout' = [op |-> "page", script |-> cin.script, page |-> Page(cin.script, cin.rng1)]
    /\ cpc' = "out"
    /\ UNCHANGED <<cin, pipeVars>>

\* A second, independent run of the same script with the same arguments: a new
\* process, whose generator starts in a state of its own.
ComposeAgain ==
    /\ cpc = "out"
    /\ cout.op = "page"
    /\ cout' = [op |-> "two_runs", script |-> cin.script,
                first |-> cout.page, second |-> Page(cin.script, cin.rng2)]
    /\ cpc' = "back"
    /\ UNCHANGED <<cin, pipeVars>>

\* The file stems of samples i and j of one batch.
MakeStems ==
    /\ cpc = "in"
    /\ cin.kind = "stems"
    /\ cout' = [op |-> "stems", a |-> file_stem(cin.script, cin.i),
                b |-> file_stem(cin.script, cin.j),
                digits |-> Pad4(cin.i)]
    /\ cpc' = "out"
    /\ UNCHANGED <<cin, pipeVars>>

\* A block generator shortens corpus text.
Truncate ==
    /\ cpc = "in"
    /\ cin.kind = "text"
    /\ cout' = [op |-> "cut", site |-> cin.site,
                cuts |-> ShortenedText(cin.site, cin.rng).cuts]
    /\ cpc' = "out"
    /\ UNCHANGED <<cin, pipeVars>>

\* block_header(0) and row_two_columns(1) composed into .page, the document set
\* as the page's content, its boxes queried and post-processed.
RenderRow ==
    /\ cpc = "in"
    /\ cin.kind = "row"
    /\ LET header == block_header("0", cin.rng)
           row == row_two_columns("1", header.rng)
           d == set_content(<<>>, <<Wrapper>> \o header.html \o row.html)
           found == evaluate_boxes(d, cin.g)
       IN  cout' = [op |-> "row_labels",
                    made |-> header.made \o row.made,
                    labels |-> [k \in DOMAIN found |-> ProcessLabel(found[k])]]
    /\ cpc' = "out"
    /\ UNCHANGED <<cin, pipeVars>>

\* The blocks of a page that has rows i and j: the header, the blocks of the two
\* rows, the signature.
ComposeRowPair ==
    /\ cpc = "in"
    /\ cin.kind = "ids"
    /\ LET header == block_header("0", cin.rngi)
           rowi == Strategy(cin.si, ToString(cin.i), cin.rngi)
           rowj == Strategy(cin.sj, ToString(cin.j), cin.rngj)
           signature == block_signature("99", cin.rngj)
       IN  cout' = [op |-> "ids",
                    made |-> header.made \o rowi.made \o rowj.made \o signature.made]
    /\ cpc' = "out"
    /\ UNCHANGED <<cin, pipeVars>>

NextCompose ==
    \/ RenderRow
    \/ ComposeRowPair
    \/ ComposePage
    \/ ComposeAgain
    \/ MakeStems
    \/ Truncate

SpecCompose == InitCompose /\ [][NextCompose]_vars

----------------------------------------------------------------------------
(* Properties of composition, naming and text (checked under SpecCompose). *)

\* C12: two independent runs of page composition with the same arguments produce
\* identical block sequences (same kinds, same ids, same rows).
C12_RunsComposeTheSamePage ==
    cout.op = "two_runs" => cout.first.made = cout.second.made

\* C13: within one batch, two distinct sample indices yield distinct file stems,
\* and the index is written with at least 4 digits, also above 9999.
C13_DistinctStems ==
    cout.op = "stems" =>
        /\ cin.i # cin.j => cout.a # cout.b
        /\ Len(cout.digits) >= 4

\* C13 witness: the stems of sample 0 and of sample 10000 were both made.
C13_StemsBeyondFourDigits ==
    /\ cout.op = "stems"
    /\ cin.i = 0
    /\ cin.j = 10000
    /\ Len(cout.digits) = 4

\* The number of blocks each entry of `blocks` holds.
EntrySizes(page) == [k \in 1..Len(page.blocks) |-> Len(page.blocks[k].made)]

\* C14: after the header, frankensteinv2 places between 5 and 8 layout rows of 1,
\* 2 or 3 blocks each (then the signature), and frankenstein between 4 and 6
\* blocks.
C14_BodyCountInDeclaredRange ==
    cout.op = "page" =>
        LET sizes == EntrySizes(cout.page)
        IN  IF cout.script = "frankensteinv2"
            THEN /\ Len(sizes) - 2 \in 5..8
                 /\ \A k \in 2..(Len(sizes) - 1) : sizes[k] \in 1..3
            ELSE /\ Len(sizes) - 1 \in 4..6
                 /\ \A k \in 2..Len(sizes) : sizes[k] = 1

\* C14 witness: a frankensteinv2 page of 8 rows, one of them of three columns.
C14_EightRowsComposed ==
    /\ cout.op = "page"
    /\ cout.script = "frankensteinv2"
    /\ Len(cout.page.blocks) = 10
    /\ \E k \in 2..9 : Len(cout.page.blocks[k].made) = 3

\* C15: one header and one two-column row of two key_value blocks give exactly 3
\* label records; the two key_value boxes have the same top y, and the left
\* one's right edge (x + width) is not beyond the right one's left edge (x), in
\* bbox_px and in bbox_pt.
C15_TwoColumnRowSideBySide ==
    (/\ cout.op = "row_labels"
     /\ Len(cout.made) = 3
     /\ cout.made[2].label = "key_value"
     /\ cout.made[3].label = "key_value") =>
        /\ Len(cout.labels) = 3
        /\ cout.labels[1].class = "header"
        /\ \A k \in {2, 3} : cout.labels[k].class = "key_value"
        /\ cout.labels[2].bbox_px[2] = cout.labels[3].bbox_px[2]
        /\ cout.labels[2].bbox_pt[2] = cout.labels[3].bbox_pt[2]
        /\ cout.labels[2].bbox_px[1] + cout.labels[2].bbox_px[3] <= cout.labels[3].bbox_px[1]
        /\ cout.labels[2].bbox_pt[1] + cout.labels[2].bbox_pt[3] <= cout.labels[3].bbox_pt[1]

\* C15 witness: such a page was rendered, and its two key_value boxes lie below
\* the header, the right one to the right of the left one.
C15_TwoKeyValueRowRendered ==
    /\ cout.op = "row_labels"
    /\ Len(cout.labels) = 3
    /\ cout.made[2].label = "key_value"
    /\ cout.made[3].label = "key_value"
    /\ cout.labels[2].bbox_px[2] > cout.labels[1].bbox_px[2]
    /\ cout.labels[3].bbox_px[1] > cout.labels[2].bbox_px[1]

\* A slice ends at a grapheme-cluster boundary: it drops no sign or joiner that
\* belongs to the last cluster kept, and does not end on a joiner with more text
\* to join.
AtClusterBoundary(c) ==
    /\ c.dropped \notin {"sign", "joiner"}
    /\ ~(c.kept = "joiner" /\ c.dropped # "none")

\* C18: every cut a block generator makes in corpus text is at a grapheme-cluster
\* boundary.
C18_CutsAtClusterBoundaries ==
    cout.op = "cut" => \A c \in cout.cuts : AtClusterBoundary(c)

----------------------------------------------------------------------------
(* The direct-drawing generators (epf_k_form_pillow, epf_k_form_synth) as a *)
(* state machine.  Positions handed to the drawing functions are integer    *)
(* hundredths of a point; what draw_text_as_image returns is in units of    *)
(* 1/PillowDen pt, in which its divisions by 1.333 * scale_factor and by 2  *)
(* are exact.                                                               *)

DirectProgs == {"epf_k_form_pillow", "epf_k_form_synth"}

\* epf_k_form_synth.draw_text_tl(c, page, x, y, text, font_name, font_size,
\* align), in hundredths of a point; the string width is the font engine's.
draw_text_tl(x, y, font_size, align, g) ==
    LET w == 2 * textbbox(100 * font_size, g).w
        h == font_size * 120
        x0 == CASE align = "left" -> x
                [] align = "center" -> x - (w \div 2)
                [] align = "right" -> x - w
    IN  <<x0, y, w, h>>

TextCall(x, y, font, size, align) ==
    [x |-> x, y |-> y, font |-> font, size |-> size, align |-> align]

\* The draw_text_as_image calls of draw_header and draw_field1, in order.
PillowCalls ==
    LET center_x == A4_WIDTH \div 2
    IN  <<TextCall(5000, 4000, "EN", 9, "left"),
          TextCall(center_x, 8000, "SI", 12, "center"),
          TextCall(center_x, 10000, "TA", 10, "center"),
          TextCall(center_x, 12000, "EN", 11, "center"),
          TextCall(center_x, 15000, "SI", 11, "center"),
          TextCall(5000, 22000, "EN", 10, "left"),
          TextCall(7000, 22000, "SI", 10, "left"),
          TextCall(7000, 23500, "TA", 10, "left"),
          TextCall(7000, 25000, "EN", 10, "left")>>

\* The draw_text_tl calls of draw_header and draw_field1_name, in order.
SynthCalls ==
    LET center_x == A4_WIDTH \div 2
    IN  <<TextCall(5000, 4000, "EN", 9, "left"),
          TextCall(center_x, 8500, "SI", 12, "center"),
          TextCall(center_x, 10300, "TA", 11, "center"),
          TextCall(center_x, 12300, "EN", 12, "center"),
          TextCall(center_x, 15000, "SI", 11, "center"),
          TextCall(5000, 23500, "EN", 10, "left"),
          TextCall(7200, 23300, "SI", 10, "left"),
          TextCall(7200, 24500, "TA", 10, "left"),
          TextCall(7200, 25700, "EN", 10, "left")>>

\* The label epf_k_form_pillow.draw_field1 returns (bbox in hundredths).
draw_field1 ==
    [id |-> "field_1_name", type |-> "input_area",
     bbox |-> <<27000, 24500, (A4_WIDTH - 5000) - 27000, 2000>>]

\* The label epf_k_form_synth.draw_field1_name returns.
draw_field1_name ==
    [id |-> "field1_name_input", type |-> "input_area", page_index |-> 0,
     bbox |-> <<29200, 25700, (A4_WIDTH - 5000) - 29200, 1800>>,
     units |-> "pt", origin |-> "top-left"]

\* The keys of each script's label document outside its label records.
DocumentKeys(p) ==
    CASE p \in BatchProgs -> {"file", "image_size", "annotations"}
      [] p = "epf_k_task1_chrome" ->
             {"schema_version", "document", "doc_id", "origin", "units", "labels"}
      [] p = "playright_generation" -> {"image", "boxes"}
      [] p = "epf_k_form_pillow" -> {"document", "page_size", "labels"}
      [] p = "epf_k_form_synth" ->
             {"schema_version", "document", "doc_id", "page_size", "labels"}

InitDraw ==
    /\ prog \in DirectProgs
    /\ pc = (IF prog = "epf_k_form_pillow" THEN "validate" ELSE "register_fonts")
    /\ fonts \in SUBSET FontKeys
    /\ count = 1 /\ i = 0 /\ rng = 0 /\ dirs = FALSE /\ sessions = 0
    /\ html = <<>> /\ composed = <<>> /\ dom = <<>>
    /\ contentOf = -1 /\ barrierOf = -1
    /\ labels_data = <<>> /\ processed_labels = <<>>
    /\ files = {} /\ labelFile = <<>> /\ composedOf = <<>>
    /\ attempted = {} /\ geomLog = {} /\ failStage = ""
    /\ CoordIdle

\* What no step of the direct-drawing generators changes.
drawFrame ==
    <<prog, fonts, count, i, rng, dirs, sessions, html, composed, dom, contentOf,
      barrierOf, composedOf, geomLog, coordVars>>

\* epf_k_form_pillow.main: a missing font is printed and main returns.
Validate ==
    /\ prog = "epf_k_form_pillow"
    /\ pc = "validate"
    /\ pc' = IF fonts = FontKeys THEN "canvas" ELSE "done"
    /\ UNCHANGED <<labels_data, processed_labels, files, labelFile, attempted, failStage,
                   drawFrame>>

\* epf_k_form_synth.main: fonts = register_fonts(args.font_dir)
RegisterFonts ==
    /\ prog = "epf_k_form_synth"
    /\ pc = "register_fonts"
    /\ IF fonts = FontKeys
       THEN pc' = "canvas" /\ UNCHANGED failStage
       ELSE Raise("font")
    /\ UNCHANGED <<labels_data, processed_labels, files, labelFile, attempted, drawFrame>>

\* c = canvas.Canvas(args.out_pdf, pagesize=A4): the one sample is begun.
NewCanvas ==
    /\ prog \in DirectProgs
    /\ pc = "canvas"
    /\ attempted' = attempted \cup {0}
    /\ pc' = "draw"
    /\ UNCHANGED <<labels_data, processed_labels, files, labelFile, failStage, drawFrame>>

\* draw_header and draw_field1 (draw_field1_name): labels_data takes the boxes the
\* text drawing calls return, processed_labels the label to be written.  A font
\* file that exists may still fail to load (unreadable \subseteq FontKeys).
DrawForm ==
    /\ prog \in DirectProgs
    /\ pc = "draw"
    /\ \E g \in 0..MaxGeom :
          IF prog = "epf_k_form_pillow"
          THEN \E unreadable \in SUBSET FontKeys :
                  /\ labels_data' =
                        [k \in DOMAIN PillowCalls |->
                            LET t == PillowCalls[k]
                            IN  [id |-> ToString(k),
                                 bbox |-> draw_text_as_image(t.x, t.y, t.size, t.align,
                                                             t.font \notin unreadable, g)]]
                  /\ processed_labels' = <<draw_field1>>
          ELSE /\ labels_data' =
                     [k \in DOMAIN SynthCalls |->
                         LET t == SynthCalls[k]
                         IN  [id |-> ToString(k),
                              bbox |-> draw_text_tl(t.x, t.y, t.size, t.align, g)]]
               /\ processed_labels' = <<draw_field1_name>>
    /\ pc' = "save"
    /\ UNCHANGED <<files, labelFile, attempted, failStage, drawFrame>>

\* c.showPage(); c.save()
SaveCanvas ==
    /\ prog \in DirectProgs
    /\ pc = "save"
    /\ files' = files \cup {File("pdf", 0, IF prog = "epf_k_form_pillow"
                                            THEN "epf_k_fixed.pdf"
                                            ELSE "epf_form_k_header_field1.pdf")}
    /\ pc' = "dump_json"
    /\ UNCHANGED <<labels_data, processed_labels, labelFile, attempted, failStage,
                   drawFrame>>

\* json.dump(final_json, f) / json.dump(sidecar, f)
DumpJson ==
    /\ prog \in DirectProgs
    /\ pc = "dump_json"
    /\ files' = files \cup {File("json", 0, IF prog = "epf_k_form_pillow"
                                             THEN "epf_k_labels.json"
                                             ELSE "epf_form_k_header_field1.labels.json")}
    /\ labelFile' = (0 :> processed_labels) @@ labelFile
    /\ pc' = "done"
    /\ UNCHANGED <<labels_data, processed_labels, attempted, failStage, drawFrame>>

\* Writing the pdf or the json raises (OSError); nothing catches it.
FailDraw ==
    /\ prog \in DirectProgs
    /\ pc \in {"save", "dump_json"}
    /\ Raise(pc)
    /\ UNCHANGED <<labels_data, processed_labels, files, labelFile, attempted, drawFrame>>

NextDraw ==
    \/ Validate
    \/ RegisterFonts
    \/ NewCanvas
    \/ DrawForm
    \/ SaveCanvas
    \/ DumpJson
    \/ FailDraw

SpecDraw == InitDraw /\ [][NextDraw]_vars

\* The exit status of the process once it has ended: an uncaught exception gives
\* 1, a return from main gives 0.
ExitStatus == IF pc = "raised" THEN 1 ELSE 0

----------------------------------------------------------------------------
(* Properties of the direct-drawing generators (checked under SpecDraw). *)

\* A box <<x, y, width, height>> of no area.
ZeroArea(bbox) == bbox[3] = 0 \/ bbox[4] = 0

\* C16: a zero-area box (width 0 or height 0) is never accepted as the geometry of
\* a drawn element: once a drawing call has returned one, nothing of the sample
\* is written, and no label written has one.
C16_ZeroAreaBoxDiscardsSample ==
    /\ (\E k \in DOMAIN labels_data : ZeroArea(labels_data[k].bbox)) => files = {}
    /\ \A n \in DOMAIN labelFile :
          \A k \in DOMAIN labelFile[n] : ~ZeroArea(labelFile[n][k].bbox)

\* C17: with a required font file missing, the process ends with a non-zero exit
\* status, no sample attempted and no PDF or label file written.
C17_MissingFontExitsNonZero ==
    (prog \in DirectProgs /\ fonts # FontKeys /\ Ended) =>
        /\ ExitStatus # 0
        /\ attempted = {}
        /\ files = {}

\* C20: every box written to a label file has, on its record or on the enclosing
\* document, a tag for its units and a tag for its origin.
C20_BoxesCarryUnitsAndOrigin ==
    \A n \in DOMAIN labelFile :
        \A k \in DOMAIN labelFile[n] :
            LET keys == (DOMAIN labelFile[n][k]) \cup DocumentKeys(prog)
            IN  /\ "units" \in keys
                /\ "origin" \in keys

----------------------------------------------------------------------------
(* Block ids (checked under SpecCompose). *)

\* No two places of a sequence of blocks hold the same data-id.
DistinctIds(made) ==
    \A a \in DOMAIN made : \A b \in DOMAIN made : a # b => made[a].id # made[b].id

\* C21: the data-id values of the blocks of one frankensteinv2 page are pairwise
\* distinct: in every page composed, and for the header, the signature and any
\* two rows of a page whatever their strategies and the suffixes they draw.
C21_DataIdsPairwiseDistinct ==
    /\ (cout.op = "page" /\ cout.script = "frankensteinv2") => DistinctIds(cout.page.made)
    /\ cout.op = "ids" => DistinctIds(cout.made)

\* C21 witness: two three-column rows composed from the same generator state, so
\* that their blocks draw the same suffixes, column by column.
C21_SameSuffixesInTwoRows ==
    /\ cout.op = "ids"
    /\ cin.si = "three"
    /\ cin.sj = "three"
    /\ cin.rngi = cin.rngj
    /\ Len(cout.made) = 8
    /\ cout.made[2].label = cout.made[5].label

----------------------------------------------------------------------------
(* The image box of draw_text_as_image (checked under SpecCoord).           *)

\* A draw_text_as_image call whose font loaded, so that an image was measured
\* and drawn.
ImageDrawn == cout.op = "draw_text_as_image" /\ cout.loaded

\* C22: for every alignment, anchor (x, y) and measured image size, the box
\* (x_final, y_final, pdf_w, pdf_h) draw_text_as_image returns is the region the
\* image is drawn in: the image is placed at bottom-left coordinates
\* (x_final, H - (y + pdf_h)) with size pdf_w x pdf_h, so its top edge is at
\* top-left y; with align center the box is horizontally centred on x, with
\* align right its right edge is x, and otherwise its left edge is x.
C22_ReturnedBoxIsDrawnRegion ==
    ImageDrawn =>
        LET x_final == cout.box[1]
            y_final == cout.box[2]
            pdf_w == cout.box[3]
            pdf_h == cout.box[4]
            x == PillowPt(cin.x)
            y == PillowPt(cin.y)
            H == PillowPt(cin.H)
        IN  /\ cout.image.drawn
            /\ pdf_w > 0 /\ pdf_h > 0
            /\ cout.image.x = x_final
            /\ cout.image.y = H - (y + pdf_h)
            /\ cout.image.width = pdf_w
            /\ cout.image.height = pdf_h
            /\ H - (cout.image.y + cout.image.height) = y
            /\ y_final = y
            /\ cout.align = "center" => 2 * x_final + pdf_w = 2 * x
            /\ cout.align = "right" => x_final + pdf_w = x
            /\ cout.align \notin {"center", "right"} => x_final = x

\* A centred image drawn on an A4 page below its top edge: the box starts left
\* of the anchor and the image's bottom-left y differs from the anchor's y.
C22_CentredImageDrawnOnA4 ==
    /\ ImageDrawn
    /\ cout.align = "center"
    /\ cin.H = A4_HEIGHT
    /\ cin.y > 0
    /\ cout.box[1] < PillowPt(cin.x)
    /\ cout.image.drawn
    /\ cout.image.y # cout.box[2]

====
